---------------------------- MODULE Spec2Model ----------------------------
(***************************************************************************)
(* Model of code.py: the PeriodicTask scheduler, the SparkleAnimation      *)
(* render pass and the application loop that drives them.                  *)
(*                                                                         *)
(* init() is called once (pc = "init"), then the loop runs.                *)
(* One loop iteration is  poll -> update -> [run: fill, count, positions,  *)
(* mults, write, show] -> stamp -> poll .  pc is the position of the       *)
(* single thread of control.  The monotonic clock is the environment: it   *)
(* advances between the iterations and while run() executes.               *)
(***************************************************************************)
EXTENDS Integers, Sequences, FiniteSets, TLC

(***************************************************************************)
(* Bounds of the model.                                                    *)
(***************************************************************************)
NumPixels == 3          \* pixels of the modelled strip (len(strip))
MaxPeriods == 2         \* the clock stops advancing after this many periods
MaxRetries == 1         \* repeated position draws allowed in one frame
MaxStripLen == 50       \* strip lengths tried on the sparkle-count formula

PercentDraws == {25, 50, 75}     \* values of random.randint(25, 75) tried
MultDraws == {0, 35}             \* values of random.randint(0, 90) tried

(***************************************************************************)
(* Program constants.                                                      *)
(***************************************************************************)
frequency == 12
BLACK == <<0, 0, 0>>
RED == <<255, 0, 0>>
YELLOW == <<255, 170, 0>>
GREEN == <<0, 180, 0>>
GREEN_LABEL == "full"
YELLOW_LABEL == "low"
RED_LABEL == "empty"
background_color == "0x0"

color_labels == [empty |-> RED, low |-> YELLOW, full |-> GREEN]
status_backgrounds ==
    [full |-> "images/full.bmp", low |-> "images/low.bmp",
     empty |-> "images/empty.bmp"]

\* names of the buttons in the order of the list `buttons`
buttons == <<RED_LABEL, YELLOW_LABEL, GREEN_LABEL, "back">>

Pixels == 0 .. (NumPixels - 1)

(***************************************************************************)
(* Colors.  self.color holds either a packed integer or a tuple; the two   *)
(* Python types are told apart by the tag.                                 *)
(***************************************************************************)
IntColor(n) == [tag |-> "int", packed |-> n, rgb |-> <<>>]
TupleColor(t) == [tag |-> "tuple", packed |-> 0, rgb |-> t]

\* _check_color of the Button: a tuple packed to 0xRRGGBB
PackRGB(t) == t[1] * 65536 + t[2] * 256 + t[3]

\* button.fill_color: the Button keeps the color it was built with either as
\* given (a tuple) or packed to an integer, depending on the button library
FillColors(name) ==
    {TupleColor(color_labels[name]), IntColor(PackRGB(color_labels[name]))}

\* int.to_bytes(3, "big"): byte i is the i-th most significant of three
\* mutant: the bytes taken in little-endian order
ByteOfLittle(n, i) == (n \div (256 ^ (i - 1))) % 256
ByteOf(n, i) == (n \div (256 ^ (3 - i))) % 256
ToBytes3(n) == [i \in 1 .. 3 |-> ByteOf(n, i)]

\* lines 77-78: isinstance(color, int) -> tuple(color.to_bytes(3, "big"))
Normalize(c) == IF c.tag = "int" THEN ToBytes3(c.packed) ELSE c.rgb

\* line 80: tuple(color_value // 3 for color_value in color)
\* mutant: the backdrop dimmed to a half instead of a third
BaseColorHalf(t) == [i \in 1 .. 3 |-> t[i] \div 2]
BaseColor(t) == [i \in 1 .. 3 |-> t[i] \div 3]

(***************************************************************************)
(* int(c * (k / 100)) as Python evaluates it, in IEEE-754 binary64 with    *)
(* round-to-nearest-even, for integers c >= 0 and 0 <= k < 100.            *)
(*                                                                         *)
(* q = k/100 is first rounded to 53 bits: with 2^e <= k/100 < 2^(e+1) and  *)
(* s = 52 - e, the remainder r = k*2^s mod 100 tells the direction         *)
(* (r < 50: q is r/(100*2^s) below k/100; r > 50: above; r = 0: exact).    *)
(* The product c*q is rounded again and then truncated.  The result is the *)
(* exact floor n = floor(c*k/100) unless c*k/100 is an integer, q was      *)
(* rounded down, and the shortfall c*r/(100*2^s) exceeds half the spacing  *)
(* of the doubles just below n; then the product stays below n and the     *)
(* truncation gives n - 1  (e.g. int(180 * (35/100)) = 62).                *)
(***************************************************************************)
\* 2^s mod 100, by repeated squaring
RECURSIVE Pow2Mod100(_)
Pow2Mod100(s) ==
    IF s = 0 THEN 1
    ELSE IF s % 2 = 1 THEN (2 * Pow2Mod100(s - 1)) % 100
    ELSE LET half == Pow2Mod100(s \div 2) IN (half * half) % 100

\* -e, where 2^e <= k/100 < 2^(e+1), for 1 <= k < 100
RECURSIVE NegExponent(_)
NegExponent(k) == IF k >= 100 THEN 0 ELSE 1 + NegExponent(2 * k)

RECURSIVE FloorLog2(_)
FloorLog2(n) == IF n < 2 THEN 0 ELSE 1 + FloorLog2(n \div 2)

FloatTruncMul(c, k) ==
    LET n == (c * k) \div 100
    IN  IF (c * k) % 100 # 0 \/ c * k = 0
        THEN n
        ELSE LET s == 52 + NegExponent(k)
                 r == (k * Pow2Mod100(s)) % 100
                 t == FloorLog2(n)
                 h == t + NegExponent(k) - 1
                 shortfall == IF n > 2 ^ t THEN c * r ELSE 2 * c * r
             IN  IF r = 0 \/ r > 50 \/ shortfall <= 100 * (2 ^ h)
                 THEN n
                 ELSE n - 1

\* line 83: int((random.randint(25, 75) / 100) * num_pixels)
\* mutant: the percentage used without the division by 100
NumSparklesNoPercent(p, n) == p * n
NumSparkles(p, n) == FloatTruncMul(n, p)

\* line 96: int(color_value * color_multipliers[index])
ScaleChannel(c, k) == FloatTruncMul(c, k)

\* lines 95-97: tuple(int(color_value * m) for color_value in color)
\* mutant: the sparkle scaled from the dimmed base color
SparkleColorFromBase(t, k) == [i \in 1 .. 3 |-> ScaleChannel(BaseColor(t)[i], k)]
SparkleColor(t, k) == [i \in 1 .. 3 |-> ScaleChannel(t[i], k)]

\* lines 52-54: int(1.0 / self.frequency * 1000000000); for frequency 12 the
\* float quotient is 83333333.33.., truncated to the integer quotient
Period == 1000000000 \div frequency

MaxTime == MaxPeriods * (Period + 1)
TickDeltas == {Period, Period + 1}

Range(s) == {s[i] : i \in 1 .. Len(s)}

(***************************************************************************)
(* A reference frame: the color RED and a fixed sequence of random draws   *)
(* (the percentage, then the positions 0, 1, .. without a repeat, then the *)
(* multipliers 0, 35, 0, ..).  on_ref follows whether the run() in         *)
(* progress has drawn exactly this sequence so far.                        *)
(***************************************************************************)
RefColor == RED
RefPercent == 75
RefCount == NumSparkles(RefPercent, NumPixels)
RefPositions == [k \in 1 .. RefCount |-> k - 1]
RefMults == [k \in 1 .. RefCount |-> IF k % 2 = 1 THEN 0 ELSE 35]

VARIABLES
    pc,                 \* position of the thread of control
    clock,              \* time.monotonic_ns()
    last_update_time,   \* PeriodicTask._last_update_time
    run_calls,          \* calls of run() made by the latest update()
    color,              \* SparkleAnimation.color
    strip,              \* the pixel buffer of the NeoPixel strip
    strip_writer,       \* who wrote the pixel buffer last: none, init or run
    shows,              \* calls of strip.show() made by the run() in progress
    rand_calls,         \* calls of random.randint made by the run() in progress
    ncolor,             \* run(): local color after normalization
    base_color,         \* run(): local base_color
    num_sparkles,       \* run(): local num_sparkles
    positions,          \* run(): local positions
    color_multipliers,  \* run(): local color_multipliers
    written,            \* run(): strip positions written, in enumeration order
    button_hidden,      \* button_group.hidden
    back_hidden,        \* back_button_group.hidden
    label_hidden,       \* social_status_label.hidden
    background,         \* the background last set on the display
    hit,                \* what the touch of this iteration hit, until update()
    on_ref,             \* the run() in progress has made the reference draws
    prev_ref,           \* frame of the preceding run() if it made them, or <<>>
    calc                \* sparkle-count calculation on its own (SpecCalc)

timeVars == <<clock, last_update_time, run_calls>>
runVars == <<ncolor, base_color, num_sparkles, positions, color_multipliers,
             written>>
stripVars == <<strip, strip_writer, shows, rand_calls>>
uiVars == <<button_hidden, back_hidden, label_hidden, background>>
refVars == <<on_ref, prev_ref>>

\* The preceding reference frame is kept only while the run() in progress
\* repeats the reference draws.
KeepRef(on) == IF on THEN prev_ref ELSE <<>>
vars == <<pc, timeVars, color, stripVars, runVars, uiVars, hit, refVars, calc>>

RunPcs == {"run", "count", "positions", "mults", "write", "show", "stamp"}

NoCalc == [p |-> 0, n |-> 0, out |-> -1]

(***************************************************************************)
(* The state when init() is called (lines 46-48, 64-68, 187-207): the      *)
(* objects are constructed, the pixel buffer of the new strip is zero, no  *)
(* group is hidden.                                                        *)
(* The reference point of the monotonic clock is not specified; it starts  *)
(* at 0 here and Tick moves it before the first update() reads it.         *)
(***************************************************************************)
Init ==
    /\ pc = "init"
    /\ clock = 0
    /\ last_update_time = 0
    /\ run_calls = 0
    /\ color = IntColor(0)
    /\ strip = [i \in Pixels |-> <<0, 0, 0>>]
    /\ strip_writer = "none"
    /\ shows = 0
    /\ rand_calls = 0
    /\ ncolor = <<>>
    /\ base_color = <<>>
    /\ num_sparkles = 0
    /\ positions = {}
    /\ color_multipliers = <<>>
    /\ written = <<>>
    /\ button_hidden = FALSE
    /\ back_hidden = FALSE
    /\ label_hidden = FALSE
    /\ background = background_color
    /\ hit = "none"
    /\ on_ref = FALSE
    /\ prev_ref = <<>>
    /\ calc = NoCalc

(***************************************************************************)
(* init(), lines 160-163: fill the strip with BLACK, put the label, the    *)
(* status buttons and the back button on the screen, hide the back button. *)
(***************************************************************************)
InitCall ==
    /\ pc = "init"
    /\ strip' = [i \in Pixels |-> BLACK]
    /\ strip_writer' = "init"
    /\ back_hidden' = TRUE
    /\ pc' = "poll"
    /\ UNCHANGED <<timeVars, color, shows, rand_calls, runVars, button_hidden,
                   label_hidden, background, hit, refVars, calc>>

(***************************************************************************)
(* The monotonic clock advances.  It is read at lines 51 and 57 only, so   *)
(* the time that passes in an iteration is added before these two reads.   *)
(***************************************************************************)
Tick ==
    /\ pc \in {"update", "stamp"}
    /\ \E d \in TickDeltas :
          /\ clock + d <= MaxTime
          /\ clock' = clock + d
    /\ UNCHANGED <<pc, last_update_time, run_calls, color, stripVars, runVars,
                   uiVars, hit, refVars, calc>>

(***************************************************************************)
(* Lines 212-227: poll the touchscreen and handle the first button that    *)
(* contains the touch.  hit is "none" (no touch), "miss" (no button        *)
(* contains it) or the name of that button.                                *)
(***************************************************************************)
\* mutant: the back button turns the animation off
HandleButtonBackResetsColor(name) ==
    /\ IF name = "back"
       THEN /\ back_hidden' = TRUE
            /\ button_hidden' = FALSE
            /\ label_hidden' = FALSE
            /\ background' = background_color
            /\ color' = IntColor(0)
       ELSE /\ back_hidden' = FALSE
            /\ button_hidden' = TRUE
            /\ label_hidden' = TRUE
            /\ background' = status_backgrounds[name]
            /\ color' \in FillColors(name)

\* mutant: a status button that leaves the title label on the screen
HandleButtonKeepsLabel(name) ==
    /\ IF name = "back"
       THEN /\ back_hidden' = TRUE
            /\ button_hidden' = FALSE
            /\ label_hidden' = FALSE
            /\ background' = background_color
            /\ UNCHANGED color
       ELSE /\ back_hidden' = FALSE
            /\ button_hidden' = TRUE
            /\ UNCHANGED label_hidden
            /\ background' = status_backgrounds[name]
            /\ color' \in FillColors(name)

HandleButton(name) ==
    /\ IF name = "back"
       THEN /\ back_hidden' = TRUE
            /\ button_hidden' = FALSE
            /\ label_hidden' = FALSE
            /\ background' = background_color
            /\ UNCHANGED color
       ELSE /\ back_hidden' = FALSE
            /\ button_hidden' = TRUE
            /\ label_hidden' = TRUE
            /\ background' = status_backgrounds[name]
            /\ color' \in FillColors(name)

\* a loop that turns the pixels off when the back button returns to the menu
PollTouchClearsStrip ==
    /\ pc = "poll"
    /\ hit' \in {"none", "miss"} \cup Range(buttons)
    /\ IF hit' \in Range(buttons)
       THEN HandleButton(hit')
       ELSE UNCHANGED <<color, uiVars>>
    /\ IF hit' = "back"
       THEN strip' = [i \in Pixels |-> BLACK] /\ strip_writer' = "loop"
       ELSE UNCHANGED <<strip, strip_writer>>
    /\ pc' = "update"
    /\ UNCHANGED <<timeVars, shows, rand_calls, runVars, refVars, calc>>

\* a loop whose break leaves the iteration: update() is skipped when a button
\* was handled
PollTouchSkipsUpdate ==
    /\ pc = "poll"
    /\ hit' \in {"none", "miss"} \cup Range(buttons)
    /\ IF hit' \in Range(buttons)
       THEN HandleButton(hit') /\ pc' = "poll"
       ELSE UNCHANGED <<color, uiVars>> /\ pc' = "update"
    /\ UNCHANGED <<timeVars, stripVars, runVars, refVars, calc>>

PollTouch ==
    /\ pc = "poll"
    /\ hit' \in {"none", "miss"} \cup Range(buttons)
    /\ IF hit' \in Range(buttons)
       THEN HandleButton(hit')
       ELSE UNCHANGED <<color, uiVars>>
    /\ pc' = "update"
    /\ UNCHANGED <<timeVars, stripVars, runVars, refVars, calc>>

(***************************************************************************)
(* PeriodicTask.update, lines 51-56: read the clock and call run() when    *)
(* the reading is past the next update time.                               *)
(***************************************************************************)
\* mutant: the comparison is not strict, the boundary fires
FireConditionAtBoundary(now, last) == now >= last + Period
\* mutant: the period is left out of the next update time
FireConditionNoPeriod(now, last) == now > last
FireCondition(now, last) == now > last + Period

\* mutant: line 57 moved out of the if, the time is stored by every update()
UpdateCheckStampsAlways ==
    /\ pc = "update"
    /\ LET now == clock
       IN  IF FireCondition(now, last_update_time)
           THEN pc' = "run" /\ run_calls' = 1 /\ UNCHANGED last_update_time
           ELSE pc' = "poll" /\ run_calls' = 0 /\ last_update_time' = clock
    /\ hit' = "none"
    /\ UNCHANGED <<clock, color, stripVars, runVars, uiVars, refVars, calc>>

UpdateCheck ==
    /\ pc = "update"
    /\ LET now == clock
       IN  IF FireCondition(now, last_update_time)
           THEN pc' = "run" /\ run_calls' = 1
           ELSE pc' = "poll" /\ run_calls' = 0
    /\ hit' = "none"
    /\ UNCHANGED <<clock, last_update_time, color, stripVars, runVars, uiVars,
                   refVars, calc>>

(***************************************************************************)
(* SparkleAnimation.run, lines 71-81: read and normalize the color, fill   *)
(* the strip with the base color.                                          *)
(***************************************************************************)
\* mutant: run() consumes the color, resetting the attribute to 0
RunFillClearsColor ==
    /\ pc = "run"
    /\ ncolor' = Normalize(color)
    /\ color' = IntColor(0)
    /\ base_color' = BaseColor(ncolor')
    /\ strip' = [i \in Pixels |-> base_color']
    /\ strip_writer' = "run"
    /\ on_ref' = (ncolor' = RefColor)
    /\ prev_ref' = KeepRef(on_ref')
    /\ pc' = "count"
    /\ UNCHANGED <<timeVars, shows, rand_calls, num_sparkles,
                   positions, color_multipliers, written, uiVars, hit,
                   calc>>

RunFill ==
    /\ pc = "run"
    /\ ncolor' = Normalize(color)
    /\ base_color' = BaseColor(ncolor')
    /\ strip' = [i \in Pixels |-> base_color']
    /\ strip_writer' = "run"
    /\ on_ref' = (ncolor' = RefColor)
    /\ prev_ref' = KeepRef(on_ref')
    /\ pc' = "count"
    /\ UNCHANGED <<timeVars, color, shows, rand_calls, num_sparkles,
                   positions, color_multipliers, written, uiVars, hit,
                   calc>>

(***************************************************************************)
(* Lines 83-86: draw the percentage, compute num_sparkles, test the color  *)
(* against BLACK and start with the empty position set.                    *)
(***************************************************************************)
\* mutant: the color is not tested against BLACK
AfterCountNoBlackTest(c, n) == IF n > 0 THEN "positions" ELSE "mults"
AfterCount(c, n) ==
    IF c # BLACK THEN (IF n > 0 THEN "positions" ELSE "mults") ELSE "show"

RunCount ==
    /\ pc = "count"
    /\ \E p \in PercentDraws :
          /\ num_sparkles' = NumSparkles(p, NumPixels)
          /\ on_ref' = (on_ref /\ p = RefPercent)
    /\ prev_ref' = KeepRef(on_ref')
    /\ rand_calls' = rand_calls + 1
    /\ positions' = {}
    /\ pc' = AfterCount(ncolor, num_sparkles')
    /\ UNCHANGED <<timeVars, color, strip, strip_writer, shows, ncolor,
                   base_color, color_multipliers, written, uiVars, hit,
                   calc>>

(***************************************************************************)
(* Lines 87-88: one iteration of the while loop, one random position.      *)
(***************************************************************************)
LoopAgain(ps, n) == Cardinality(ps) < n

\* mutant: positions kept in a list, a repeated draw counts as a sparkle
RunPositionCountsRepeats ==
    /\ pc = "positions"
    /\ \E i \in Pixels :
          /\ i \in positions =>
                 rand_calls - 1 - Cardinality(positions) < MaxRetries
          /\ positions' = positions \cup {i}
          /\ on_ref' = (on_ref /\ rand_calls <= RefCount
                                /\ i = RefPositions[rand_calls])
    /\ prev_ref' = KeepRef(on_ref')
    /\ rand_calls' = rand_calls + 1
    /\ pc' = IF rand_calls' - 1 < num_sparkles THEN "positions" ELSE "mults"
    /\ UNCHANGED <<timeVars, color, strip, strip_writer, shows, ncolor,
                   base_color, num_sparkles, color_multipliers, written,
                   uiVars, hit, calc>>

RunPosition ==
    /\ pc = "positions"
    /\ \E i \in Pixels :
          /\ i \in positions =>
                 rand_calls - 1 - Cardinality(positions) < MaxRetries
          /\ positions' = positions \cup {i}
          /\ on_ref' = (on_ref /\ rand_calls <= RefCount
                                /\ i = RefPositions[rand_calls])
    /\ prev_ref' = KeepRef(on_ref')
    /\ rand_calls' = rand_calls + 1
    /\ pc' = IF LoopAgain(positions', num_sparkles) THEN "positions" ELSE "mults"
    /\ UNCHANGED <<timeVars, color, strip, strip_writer, shows, ncolor,
                   base_color, num_sparkles, color_multipliers, written,
                   uiVars, hit, calc>>

(***************************************************************************)
(* Lines 90-92: one multiplier draw per sparkle.                           *)
(***************************************************************************)
RunMultipliers ==
    /\ pc = "mults"
    /\ color_multipliers' \in [1 .. num_sparkles -> MultDraws]
    /\ on_ref' = (on_ref /\ color_multipliers' = RefMults)
    /\ prev_ref' = KeepRef(on_ref')
    /\ rand_calls' = rand_calls + num_sparkles
    /\ pc' = IF positions = {} THEN "show" ELSE "write"
    /\ UNCHANGED <<timeVars, color, strip, strip_writer, shows, ncolor,
                   base_color, num_sparkles, positions, written, uiVars, hit,
                   calc>>

(***************************************************************************)
(* Lines 94-97: one iteration of the for loop.  enumerate(positions)       *)
(* visits every element of the set once, in an order the set decides.      *)
(***************************************************************************)
SparklePixel(c, ms, index) == SparkleColor(c, ms[index + 1])

\* mutant: strip.show() indented into the for loop
RunWriteShowsEach ==
    /\ pc = "write"
    /\ \E strip_position \in positions \ Range(written) :
          /\ strip' = [strip EXCEPT ![strip_position] =
                          SparklePixel(ncolor, color_multipliers, Len(written))]
          /\ written' = Append(written, strip_position)
    /\ strip_writer' = "run"
    /\ shows' = shows + 1
    /\ pc' = IF Len(written') < Cardinality(positions) THEN "write" ELSE "show"
    /\ UNCHANGED <<timeVars, color, rand_calls, ncolor, base_color,
                   num_sparkles, positions, color_multipliers, uiVars, hit,
                   refVars, calc>>

RunWrite ==
    /\ pc = "write"
    /\ \E strip_position \in positions \ Range(written) :
          /\ strip' = [strip EXCEPT ![strip_position] =
                          SparklePixel(ncolor, color_multipliers, Len(written))]
          /\ written' = Append(written, strip_position)
    /\ strip_writer' = "run"
    /\ pc' = IF Len(written') < Cardinality(positions) THEN "write" ELSE "show"
    /\ UNCHANGED <<timeVars, color, shows, rand_calls, ncolor,
                   base_color, num_sparkles, positions, color_multipliers,
                   uiVars, hit, refVars, calc>>

(***************************************************************************)
(* Line 99: strip.show() pushes the buffer, as it is now, to the LEDs.     *)
(***************************************************************************)
RunShow ==
    /\ pc = "show"
    /\ shows' = shows + 1
    /\ pc' = "stamp"
    /\ UNCHANGED <<timeVars, color, strip, strip_writer, rand_calls, runVars,
                   uiVars, hit, refVars, calc>>

(***************************************************************************)
(* Line 57: run() has returned, its locals are gone; the clock is read     *)
(* again and stored.                                                       *)
(***************************************************************************)
UpdateStamp ==
    /\ pc = "stamp"
    /\ last_update_time' = clock
    /\ ncolor' = <<>>
    /\ base_color' = <<>>
    /\ num_sparkles' = 0
    /\ positions' = {}
    /\ color_multipliers' = <<>>
    /\ written' = <<>>
    /\ shows' = 0
    /\ rand_calls' = 0
    /\ prev_ref' = IF on_ref THEN strip ELSE <<>>
    /\ on_ref' = FALSE
    /\ pc' = "poll"
    /\ UNCHANGED <<clock, run_calls, color, strip, strip_writer, uiVars, hit,
                   calc>>

Next ==
    \/ InitCall
    \/ Tick
    \/ PollTouch
    \/ UpdateCheck
    \/ RunFill
    \/ RunCount
    \/ RunPosition
    \/ RunMultipliers
    \/ RunWrite
    \/ RunShow
    \/ UpdateStamp

Spec == Init /\ [][Next]_vars

(***************************************************************************)
(* The loop keeps running: `while True` (line 211) has no blocking call,   *)
(* so whichever statement is next is eventually executed.  Nothing is      *)
(* assumed about the clock or about the touches.                           *)
(***************************************************************************)
ProgramStep ==
    \/ InitCall
    \/ PollTouch
    \/ UpdateCheck
    \/ RunFill
    \/ RunCount
    \/ RunPosition
    \/ RunMultipliers
    \/ RunWrite
    \/ RunShow
    \/ UpdateStamp

SpecLive == Init /\ [][Next]_vars /\ WF_vars(ProgramStep)

(***************************************************************************)
(* The sparkle count on its own: line 83 applied to every percentage the   *)
(* random source can return and to strips of every length up to            *)
(* MaxStripLen.                                                            *)
(***************************************************************************)
InitCalc ==
    /\ pc = "calc"
    /\ clock = 0
    /\ last_update_time = 0
    /\ run_calls = 0
    /\ color = IntColor(0)
    /\ strip = [i \in Pixels |-> <<0, 0, 0>>]
    /\ strip_writer = "none"
    /\ shows = 0
    /\ rand_calls = 0
    /\ ncolor = <<>>
    /\ base_color = <<>>
    /\ num_sparkles = 0
    /\ positions = {}
    /\ color_multipliers = <<>>
    /\ written = <<>>
    /\ button_hidden = FALSE
    /\ back_hidden = FALSE
    /\ label_hidden = FALSE
    /\ background = background_color
    /\ hit = "none"
    /\ on_ref = FALSE
    /\ prev_ref = <<>>
    /\ calc \in [p : 25 .. 75, n : 0 .. MaxStripLen, out : {-1}]

CalcNumSparkles ==
    /\ pc = "calc"
    /\ calc.out = -1
    /\ calc' = [calc EXCEPT !.out = NumSparkles(calc.p, calc.n)]
    /\ UNCHANGED <<pc, timeVars, color, stripVars, runVars, uiVars, hit,
                   refVars>>

SpecCalc == InitCalc /\ [][CalcNumSparkles]_vars

TypeOK ==
    /\ pc \in {"init", "poll", "update", "calc"} \cup RunPcs
    /\ clock \in 0 .. MaxTime
    /\ last_update_time \in 0 .. MaxTime
    /\ run_calls \in 0 .. 1
    /\ \A i \in Pixels : \A j \in 1 .. 3 : strip[i][j] \in 0 .. 255


(***************************************************************************)
(* Properties.                                                             *)
(***************************************************************************)
\* line 52: next_update_time
NextUpdateTime == last_update_time + Period
FrameDone == pc \in {"show", "stamp"}
AfterFill == pc \in RunPcs \ {"run"}

\* C1: an update() that reads the clock past last + period calls run() once;
\* one that reads a clock at or before last + period (the boundary included)
\* does not call it; run() is entered from nowhere else.
C1_FiresIffPastPeriod ==
    [][/\ (pc = "update" /\ pc' # "update") =>
            IF clock > NextUpdateTime
            THEN pc' = "run" /\ run_calls' = 1
            ELSE pc' = "poll" /\ run_calls' = 0
       /\ (pc' = "run" /\ pc # "run") =>
            (pc = "update" /\ clock > NextUpdateTime)]_vars

\* an update() called exactly one period after the last fire has returned
\* without firing
C1_BoundaryDidNotFire ==
    /\ pc = "poll"
    /\ run_calls = 0
    /\ last_update_time > 0
    /\ clock = NextUpdateTime

\* C2: an update() that does not fire changes nothing: not the stored time,
\* the strip buffer, the show and random-draw counts, the color or any local
\* of run(); the stored time changes only at the end of an update() that
\* fired.
C2_NoFireNoEffect ==
    [][/\ (pc = "update" /\ pc' = "poll") =>
            UNCHANGED <<clock, last_update_time, color, strip, shows,
                        rand_calls, runVars, uiVars>>
       /\ last_update_time' # last_update_time =>
            (pc = "stamp" /\ run_calls = 1)]_vars

\* an update() returned without firing although a frame was rendered before
C2_IdleUpdateSeen ==
    /\ pc = "poll"
    /\ run_calls = 0
    /\ last_update_time > 0
    /\ clock < NextUpdateTime
    /\ \E i \in Pixels : strip[i] # BLACK

\* C3: while the action runs, the clock is more than one period past the
\* stored time, which is the clock reading taken after the preceding action
\* returned; the stored time is set to the clock at the return and never
\* decreases.
C3_FiresOnePeriodApart ==
    /\ [](pc \in RunPcs => clock > NextUpdateTime)
    /\ [][/\ last_update_time' >= last_update_time
          /\ (pc = "stamp" /\ pc' = "poll") => last_update_time' = clock]_vars

\* a fire that follows an earlier fire
C3_SecondFire == pc = "run" /\ last_update_time > 0

\* C4: when the sparkles of a non-black frame are written, the written
\* positions are the position set, each written once, all on the strip, and
\* there are exactly num_sparkles of them.
C4_DistinctSparkles ==
    (FrameDone /\ ncolor # BLACK) =>
        /\ positions \subseteq Pixels
        /\ Cardinality(positions) = num_sparkles
        /\ Len(written) = num_sparkles
        /\ Range(written) = positions
        /\ \A i, j \in 1 .. Len(written) : i # j => written[i] # written[j]

\* a frame of two or more sparkles in which a repeated position was drawn
C4_RetriedFrame ==
    /\ pc = "show"
    /\ ncolor # BLACK
    /\ num_sparkles >= 2
    /\ rand_calls > 1 + 2 * num_sparkles

\* C5: a frame rendered from a black color, packed or tuple, has every
\* pixel (0,0,0) and no indexed write.
C5_BlackFrame ==
    (FrameDone /\ (color = IntColor(0) \/ color = TupleColor(BLACK))) =>
        /\ \A i \in Pixels : strip[i] = <<0, 0, 0>>
        /\ written = <<>>
        /\ positions = {}

\* a frame rendered from the initial color, the packed integer 0
C5_BlackFrameRendered == pc = "stamp" /\ color = IntColor(0)

\* C6: the sparkle count is floor(p * N / 100).
C6_NumSparklesIsFloor ==
    calc.out # -1 => calc.out = (calc.p * calc.n) \div 100

\* C7: every sparkled pixel is (floor(R*m), floor(G*m), floor(B*m)) for its
\* multiplier m = k/100, from the original color.
C7_SparkleIsFloor ==
    FrameDone =>
        \A j \in 1 .. Len(written) : \A ch \in 1 .. 3 :
            strip[written[j]][ch] = (ncolor[ch] * color_multipliers[j]) \div 100

\* the frame that run() paints for the color tuple t with the draws made
FrameOf(t) ==
    [i \in Pixels |->
        IF i \in Range(written)
        THEN LET j == CHOOSE x \in 1 .. Len(written) : written[x] = i
             IN  SparkleColor(t, color_multipliers[j])
        ELSE BaseColor(t)]

\* C8: a packed color c is normalized to (c div 65536, (c div 256) mod 256,
\* c mod 256), a tuple is used as it is, and the frame painted for a packed
\* color is the frame of that tuple under the same draws.
C8_PackedIsTuple ==
    AfterFill =>
        LET c == color.packed
            t == IF color.tag = "int"
                 THEN <<c \div 65536, (c \div 256) % 256, c % 256>>
                 ELSE color.rgb
        IN  /\ ncolor = t
            /\ FrameDone => strip = FrameOf(t)

\* a sparkled frame rendered from a packed color
C8_PackedFrame ==
    pc = "stamp" /\ color.tag = "int" /\ color.packed > 0 /\ written # <<>>

\* C9: base_color is the normalized color divided by 3, channel by channel;
\* the fill sets every pixel to it and every pixel not written as a sparkle
\* still holds it when the frame is done.
C9_BaseColorBackdrop ==
    AfterFill =>
        /\ base_color = <<ncolor[1] \div 3, ncolor[2] \div 3, ncolor[3] \div 3>>
        /\ \A i \in Pixels \ Range(written) : strip[i] = base_color

\* a finished frame with sparkles and with backdrop pixels
C9_MixedFrame ==
    /\ pc = "stamp"
    /\ ncolor = YELLOW
    /\ written # <<>>
    /\ Pixels \ positions # {}

\* C10: show() is called once per run(), as its last step: not before the
\* fill and the sparkle writes are complete, and the buffer is not written
\* once it is flushed.
C10_ShowOnceAtEnd ==
    /\ [](pc = "stamp" => shows = 1)
    /\ [](pc \in RunPcs \ {"stamp"} => shows = 0)
    /\ [][/\ shows' > shows =>
               /\ \A i \in Pixels \ positions : strip[i] = base_color
               /\ Range(written) = positions
               /\ ncolor # BLACK => Cardinality(positions) = num_sparkles
               /\ strip' = strip
               /\ pc' = "stamp"
          /\ strip' # strip => (shows = 0 /\ pc \in {"run", "write"})]_vars

\* a frame with sparkles, flushed once
C10_FlushedFrame == pc = "stamp" /\ shows = 1 /\ written # <<>>


C12_UpdateEveryIteration ==
    /\ [][pc' # pc => /\ (pc = "poll") = (pc' = "update")
                      /\ (pc' = "poll" => pc \in {"init", "update", "stamp"})]_vars
    /\ (pc = "poll") ~> (pc = "update")
    /\ (pc = "update" /\ clock > NextUpdateTime) ~> (pc = "run")

\* update() is reached, due, in an iteration that handled a button
C12_DueAfterButton ==
    pc = "update" /\ hit \in Range(buttons) /\ clock > NextUpdateTime


(***************************************************************************)
(* C13, as claimed.  The pixel buffer is written only by run(): start-up   *)
(* initialisation never writes it.                                         *)
(***************************************************************************)
C13_OnlyRunWrites == strip_writer \in {"none", "run"}

(***************************************************************************)
(* C13, amended.  The pixel buffer is written by init() (the fill of line  *)
(* 161, once, at start-up) and after that only by run(): the poll, the     *)
(* button handling, the screen switch and update() itself never write it.  *)
(***************************************************************************)
C13_OnlyInitAndRunWrite ==
    /\ [](strip_writer \in {"none", "init", "run"})
    /\ [][(strip' # strip \/ strip_writer' # strip_writer) =>
              \/ pc = "init" /\ strip_writer' = "init"
              \/ pc \in {"run", "write"} /\ strip_writer' = "run"]_vars
    /\ [][strip_writer = "run" => strip_writer' = "run"]_vars

\* a frame rendered by run() is on the strip while a status screen is shown
C13_FrameOnStatusScreen ==
    /\ pc = "poll"
    /\ strip_writer = "run"
    /\ back_hidden = FALSE
    /\ \E i \in Pixels : strip[i] # BLACK


(***************************************************************************)
(* C14.  The animation's color is written only by the loop's button        *)
(* handling (a step of the poll): update() and run() never change it.      *)
(* run() reads it when it fires, so the frame being rendered is always the *)
(* frame of the current color: the color selected in an iteration is used  *)
(* by that iteration's update() and by every frame until the next          *)
(* selection.                                                              *)
(***************************************************************************)
C14_ColorWrittenByLoopOnly ==
    /\ [][color' # color => pc = "poll"]_vars
    /\ [](AfterFill => ncolor = Normalize(color))

\* a frame of the selected color YELLOW has been rendered
C14_SelectedColorFrame ==
    /\ pc = "stamp"
    /\ color \in FillColors(YELLOW_LABEL)
    /\ ncolor = YELLOW
    /\ \A i \in Pixels : strip[i] \in {BaseColor(YELLOW)} \cup
                             {SparkleColor(YELLOW, k) : k \in MultDraws}


(***************************************************************************)
(* C15.  A run() whose color is (0, 0, 0) computes no sparkle count and    *)
(* takes no draw from the random source: at the end of a black frame the   *)
(* number of draws made by the frame is 0.                                 *)
(***************************************************************************)
C15_BlackFrameDrawsNothing ==
    (pc = "stamp" /\ ncolor = BLACK) => rand_calls = 0


(***************************************************************************)
(* C16, as claimed.  After a render pass with a non-black color every      *)
(* channel of every sparkled pixel is >= the same channel of base_color,   *)
(* whatever multiplier was drawn.                                          *)
(***************************************************************************)
C16_SparkleNotBelowBase ==
    (FrameDone /\ ncolor # BLACK) =>
        \A j \in 1 .. Len(written) : \A ch \in 1 .. 3 :
            strip[written[j]][ch] >= base_color[ch]

\* line 96 over every channel value and every multiplier of randint(0, 90):
\* never above the channel, and not below its third from 34/100 on
ScaleWithinChannel ==
    \A c \in 0 .. 255 : \A k \in 0 .. 90 :
        /\ ScaleChannel(c, k) <= c
        /\ k >= 34 => ScaleChannel(c, k) >= c \div 3

(***************************************************************************)
(* C16, amended.  After a render pass with a non-black color every channel *)
(* of a sparkled pixel is <= the same channel of the color; it is >= the   *)
(* channel of base_color when the pixel's multiplier is at least 34/100    *)
(* (a smaller multiplier can leave the sparkle darker than the backdrop).  *)
(***************************************************************************)
C16_SparkleWithinColor ==
    /\ ScaleWithinChannel
    /\ (FrameDone /\ ncolor # BLACK) =>
           \A j \in 1 .. Len(written) : \A ch \in 1 .. 3 :
               /\ strip[written[j]][ch] <= ncolor[ch]
               /\ color_multipliers[j] >= 34 =>
                      strip[written[j]][ch] >= base_color[ch]

\* a frame with one sparkle darker and one brighter than the backdrop
C16_DarkAndBrightSparkle ==
    /\ pc = "stamp"
    /\ ncolor # BLACK
    /\ \E j \in 1 .. Len(written) : color_multipliers[j] = 0
    /\ \E j \in 1 .. Len(written) : color_multipliers[j] = 35


(***************************************************************************)
(* C17.  Once init() has returned, after any sequence of touches, exactly  *)
(* one of the two screens is shown: the back button is hidden exactly when *)
(* the status buttons are not, and the title label is hidden exactly when  *)
(* the status buttons are.                                                 *)
(***************************************************************************)
C17_OneScreenShown ==
    pc # "init" =>
        /\ back_hidden = ~button_hidden
        /\ label_hidden = button_hidden

\* the menu is shown again after a status was selected and back was touched
C17_BackOnMenu ==
    /\ pc = "update"
    /\ hit = "back"
    /\ color # IntColor(0)
    /\ ~button_hidden
    /\ back_hidden


(***************************************************************************)
(* C18.  Handling the back button leaves the color unchanged.  The color   *)
(* changes only when a button named by a status label is handled, and a    *)
(* handled status button sets it to that button's fill color.  A poll      *)
(* without a touch, or with a touch that hits no button, changes neither   *)
(* the screen nor the color.                                               *)
(***************************************************************************)
C18_ColorFollowsStatusButton ==
    [][/\ (pc = "poll" /\ hit' = "back") => color' = color
       /\ color' # color => (pc = "poll" /\ hit' \in DOMAIN status_backgrounds)
       /\ (pc = "poll" /\ hit' \in DOMAIN status_backgrounds) =>
              color' \in FillColors(hit')
       /\ (pc = "poll" /\ hit' \in {"none", "miss"}) =>
              UNCHANGED <<color, uiVars>>]_vars

\* a GREEN frame is rendered while the menu is shown again
C18_GreenFrameOnMenu ==
    /\ pc = "stamp"
    /\ ncolor = GREEN
    /\ back_hidden
    /\ background = background_color
    /\ written # <<>>


\* line 83 over every percentage of randint(25, 75) and every strip length:
\* the count never exceeds the strip length, and is 0 on an empty strip
NumSparklesFits ==
    \A p \in 25 .. 75 : \A n \in 0 .. MaxStripLen :
        /\ NumSparkles(p, n) >= 0
        /\ NumSparkles(p, n) <= n

(***************************************************************************)
(* C19.  The retry loop of lines 87-88 can and does terminate: the sparkle *)
(* count never exceeds the strip length, so while the loop is running a    *)
(* position not yet chosen exists; the loop body runs only for a count     *)
(* above 0; and, the draws being fair (a repeat is drawn at most           *)
(* MaxRetries times in a frame), the loop is left and run() reaches the    *)
(* flush.                                                                  *)
(***************************************************************************)
C19_RetryLoopTerminates ==
    /\ [](/\ NumSparklesFits
          /\ num_sparkles <= NumPixels
          /\ pc = "positions" =>
                 /\ num_sparkles > 0
                 /\ Cardinality(positions) < num_sparkles
                 /\ Pixels \ positions # {})
    /\ (pc = "positions") ~> (pc = "show")

\* the loop has been left after a repeated draw
C19_LoopLeftAfterRetry ==
    /\ pc = "mults"
    /\ Cardinality(positions) = num_sparkles
    /\ rand_calls - 1 > num_sparkles


(***************************************************************************)
(* C20.  A touch is handled only by a button of the screen that is shown:  *)
(* a poll whose touch lands on a status button while the status buttons    *)
(* are hidden, or on the back button while it is hidden, changes neither   *)
(* the color (as an RGB value) nor the screen.                             *)
(***************************************************************************)
C20_HiddenButtonInert ==
    [][(pc = "poll" /\ (\/ hit' \in DOMAIN status_backgrounds /\ button_hidden
                        \/ hit' = "back" /\ back_hidden)) =>
           (Normalize(color') = Normalize(color) /\ UNCHANGED uiVars)]_vars

=============================================================================
